---- MODULE Spec2Model ----
(***************************************************************************)
(* Gesture pipeline of the repository: the frame buffer of                 *)
(* GesturePredictor (predict_gesture.py), the sliding-window               *)
(* classification loops of process_video.main, analyze_gesture and         *)
(* analyze_all, and the score aggregation of calculate_scores.             *)
(*                                                                         *)
(* A frame (one row of a landmarks array) is modelled by an identifier:    *)
(* 0 is the all-zero row np.zeros produces, i >= 1 is the i-th real frame. *)
(* Probabilities and scores are integers in hundredths (0.75 is 75,        *)
(* 7.5 is 750).                                                            *)
(***************************************************************************)
EXTENDS Integers, Sequences, FiniteSets, TLC

\* ------------------------------------------------------------------ bounds
\* longest landmarks sequence a request carries
MaxLen == 61
\* most add_frame calls between two resets
MaxAppends == 32
\* longest label list, and longest probability list, of a direct
\* calculate_scores call
MaxPreds == 4
MaxProbs == 2
\* the longest series of feature rows given to the smile predictor
MaxFrames == 11
\* the longest column whose statistics are computed value by value
MaxT == 4
\* the number of upload requests the servers take
MaxRequests == 3
\* how deep below the start directory voice_confidence_production directories nest
MaxDepth == 2

\* ------------------------------------------------- constants of the program
SEQUENCE_LENGTH == 30
N_FEATURES == 174
\* width the docstring of add_frame announces (a frame of the old layout)
OLD_N_FEATURES == 258
SCALE == 10

CLASS_NAMES == << "self_touch", "hands_on_table", "hidden_hands", "gestures_on_table" >>

Classes == { CLASS_NAMES[i] : i \in 1..Len(CLASS_NAMES) }

\* vectors self.model.predict may return, in hundredths, indexed as
\* CLASS_NAMES; the fourth has two equal maxima; the last does not sum to 1
\* (__init__ validates the input shape of the loaded model only, so its
\* output layer need not be a softmax)
ModelOutputs ==
  { << 70, 10, 10, 10 >>, << 10, 70, 10, 10 >>, << 20, 20, 50, 10 >>,
    << 40, 40, 10, 10 >>, << 60, 60, 40, 40 >> }

\* --------------------------------------------------------------- variables
VARIABLES
  load_path,          \* branch of GesturePredictor.__init__ that built the object
  has_frame_buffer,   \* the attribute self.frame_buffer exists
  frame_buffer,       \* self.frame_buffer
  appended,           \* history: frames add_frame stored since the last reset
  last_op,            \* last buffer operation
  landmarks_arg,      \* argument of the last add_frame call
  add_result,         \* what the last add_frame returned or raised
  pc,                 \* position of the running request
  path,               \* entry point of the running request
  landmarks_sequence, \* rows extracted from the video
  start_idx,          \* loop variable of the window loop
  model_inputs,       \* arrays handed to self.model.predict, in call order
  predictions,        \* predicted class per window
  probabilities_per_second, \* all_probabilities per window (analyze_all)
  total_predictions,  \* second argument of the last calculate_scores call
  scores,             \* << >> or << the dict calculate_scores returned >>
  status,             \* how the request ended
  model_calls,        \* calls of self.model.predict made, the raising one included
  smile_score,        \* << >> (None) or << the smile score passed to the fusion >>
  weights,            \* << >> or << the weights dict the fusion built >>
  overall_score,      \* << >> or << the fused score >>
  models,             \* self.models: the gesture classes with a loaded regressor
  todo,               \* classes the loop over self.models.items() has yet to visit
  raised,             \* history: classes whose model call raised
  gesture_predictions, \* << >> or << the predictions dict built so far >>
  voice_result,       \* << >> or << the dict predict_engaging_tone returned >>
  smile_data,         \* the feature rows given to the smile predictor
  stats,              \* << >> or << the dict calculate_statistics returned >>
  X,                  \* << >> or << the feature vector given to the scaler >>
  result,             \* << >> or << the dict the last call of predict returned >>
  series,             \* the column given to calculate_statistics, in units of 1e-10
  cstats,             \* << >> or << the statistics of that column >>
  http_status,        \* 0, or the status code of the last response of a server
  uploads,            \* the uploaded files on disk, [endpoint, name]
  requests,           \* the number of upload requests the servers have taken
  cwd,                \* the working directory, as the names below the start directory
  background,         \* the files a background task is scheduled to remove
  fault,              \* what was wrong with the last request, "none" if nothing
  net,                \* the loaded classifier, window |-> softmax vector; << >> before loading
  debug_count,        \* gesture_predictor._debug_count, 0 while the attribute is absent
  reqs                \* the local variables of each of the two concurrent requests

bufvars == << load_path, has_frame_buffer, frame_buffer, appended, last_op, landmarks_arg,
             add_result >>
reqvars == << pc, path, landmarks_sequence, start_idx, model_inputs, predictions,
              probabilities_per_second, total_predictions, scores, status, model_calls >>
fusvars == << smile_score, weights, overall_score >>
regvars == << models, todo, raised, gesture_predictions, voice_result >>
smilevars == << smile_data, stats, X >>
statvars == << series, cstats >>
srvvars == << http_status, uploads, requests, cwd, background, fault >>
convars == << net, debug_count, reqs >>
vars == << load_path, has_frame_buffer, frame_buffer, appended, last_op, landmarks_arg, add_result,
           pc, path, landmarks_sequence, start_idx, model_inputs, predictions,
           probabilities_per_second, total_predictions, scores, status, model_calls,
           smile_score, weights, overall_score, models, todo, raised, gesture_predictions,
           voice_result, smile_data, stats, X, result, series, cstats,
           http_status, uploads, requests, cwd, background, fault,
           net, debug_count, reqs >>

\* ------------------------------------------------------- python primitives
\* s[-n:] for 0 < n
LastN(s, n) ==
  IF Len(s) <= n THEN s ELSE SubSeq(s, Len(s) - n + 1, Len(s))

\* np.zeros((n, width)): n zero rows
Zeros(n) == [ i \in 1..n |-> 0 ]

\* np.argmin in the place of np.argmax
ArgMax_Min(p) ==
  CHOOSE i \in 1..Len(p) :
    /\ \A j \in 1..Len(p) : p[j] >= p[i]
    /\ \A j \in 1..(i - 1) : p[j] > p[i]

\* np.argmax: index of the first maximum
ArgMax(p) ==
  CHOOSE i \in 1..Len(p) :
    /\ \A j \in 1..Len(p) : p[j] <= p[i]
    /\ \A j \in 1..(i - 1) : p[j] < p[i]

\* round(num/den, 0) of Python: ties go to the even neighbour
RoundHalfEven(num, den) ==
  LET q == num \div den
      r == num % den
  IN  IF 2 * r > den \/ (2 * r = den /\ q % 2 = 1) THEN q + 1 ELSE q

\* ---------------------------------------------------------- frame buffer
LoadPaths == { "model_path", "MODEL_PATH", "config_weights" }

Widths == { N_FEATURES, OLD_N_FEATURES }

InitBuffer ==
  /\ load_path \in LoadPaths
  /\ has_frame_buffer = (load_path # "config_weights")
  /\ frame_buffer = << >>
  /\ appended = << >>
  /\ last_op = "init"
  /\ landmarks_arg = [ shape |-> N_FEATURES, id |-> 0 ]
  /\ add_result = "none"

\* reset_buffer with the assignment left out
reset_buffer_Keeps ==
  /\ UNCHANGED << has_frame_buffer, frame_buffer, appended >>
  /\ last_op' = "reset_buffer"
  /\ add_result' = "none"
  /\ UNCHANGED << load_path, landmarks_arg >>

reset_buffer ==
  /\ has_frame_buffer' = TRUE
  /\ frame_buffer' = << >>
  /\ appended' = << >>
  /\ last_op' = "reset_buffer"
  /\ add_result' = "none"
  /\ UNCHANGED << load_path, landmarks_arg >>

\* truncation that keeps the oldest frames, buf[:n]
Truncated_KeepsOldest(buf) ==
  IF Len(buf) > SEQUENCE_LENGTH THEN SubSeq(buf, 1, SEQUENCE_LENGTH) ELSE buf

\* self.frame_buffer after the append and the truncation of add_frame
Truncated(buf) ==
  IF Len(buf) > SEQUENCE_LENGTH THEN LastN(buf, SEQUENCE_LENGTH) ELSE buf

\* the width test against the width of the docstring
ShapeMismatch_Old(landmarks) == landmarks.shape # OLD_N_FEATURES

\* landmarks.shape[0] != N_FEATURES
ShapeMismatch(landmarks) == landmarks.shape # N_FEATURES

\* the return value with > for >=
Ready_Strict(buf) == Len(buf) > SEQUENCE_LENGTH

\* len(self.frame_buffer) >= self.sequence_length
Ready(buf) == Len(buf) >= SEQUENCE_LENGTH

add_frame(landmarks) ==
  /\ last_op' = "add_frame"
  /\ landmarks_arg' = landmarks
  /\ UNCHANGED load_path
  /\ IF ShapeMismatch(landmarks)
       THEN /\ add_result' = "ValueError"
            /\ UNCHANGED << has_frame_buffer, frame_buffer, appended >>
     ELSE IF ~has_frame_buffer
       THEN /\ add_result' = "AttributeError"
            /\ UNCHANGED << has_frame_buffer, frame_buffer, appended >>
     ELSE /\ frame_buffer' = Truncated(Append(frame_buffer, landmarks))
          /\ appended' = Append(appended, landmarks)
          /\ add_result' = IF Ready(frame_buffer') THEN "True" ELSE "False"
          /\ UNCHANGED has_frame_buffer

AddFrame ==
  /\ Len(appended) < MaxAppends
  /\ \E w \in Widths :
       add_frame([ shape |-> w, id |-> Len(appended) + 1 ])
  /\ UNCHANGED << reqvars, fusvars, regvars, smilevars, statvars, convars, srvvars, result >>

ResetBuffer ==
  /\ reset_buffer
  /\ UNCHANGED << reqvars, fusvars, regvars, smilevars, statvars, convars, srvvars, result >>

\* the two requests of analyze_all that are in flight together
Clients == { 1, 2 }

\* the local variables of analyze_all before a request arrives
NoRequest ==
  [ pc |-> "idle", landmarks_sequence |-> << >>, start_idx |-> 0, predictions |-> << >>,
    probabilities_per_second |-> << >>, scores |-> << >> ]

IdleRequest ==
  /\ pc = "idle"
  /\ path = "none"
  /\ landmarks_sequence = << >>
  /\ start_idx = 0
  /\ model_inputs = << >>
  /\ predictions = << >>
  /\ probabilities_per_second = << >>
  /\ total_predictions = 0
  /\ scores = << >>
  /\ status = "none"
  /\ model_calls = 0
  /\ smile_score = << >>
  /\ weights = << >>
  /\ overall_score = << >>
  /\ models = { }
  /\ todo = << >>
  /\ raised = { }
  /\ gesture_predictions = << >>
  /\ voice_result = << >>
  /\ smile_data = [ finite |-> 0, nan |-> 0, posinf |-> 0, neginf |-> 0 ]
  /\ stats = << >>
  /\ X = << >>
  /\ result = << >>
  /\ series = << >>
  /\ cstats = << >>
  /\ http_status = 0
  /\ uploads = {}
  /\ requests = 0
  /\ cwd = << >>
  /\ background = {}
  /\ fault = "none"
  /\ net = << >>
  /\ debug_count = 0
  /\ reqs = [ c \in Clients |-> NoRequest ]

InitB == InitBuffer /\ IdleRequest


\* ------------------------------------------------ GesturePredictor.predict
\* the zero array with the sequence written to its first rows
PadLeft_FramesFirst(seq) ==
  [ i \in 1..SEQUENCE_LENGTH |-> IF i <= Len(seq) THEN seq[i] ELSE 0 ]

\* the zero array with the sequence written to its last rows
\* (sequence[-len:] = landmarks_sequence)
PadLeft(seq) ==
  [ i \in 1..SEQUENCE_LENGTH |->
      IF i <= SEQUENCE_LENGTH - Len(seq) THEN 0
      ELSE seq[i - (SEQUENCE_LENGTH - Len(seq))] ]

\* an empty sequence taken as any other
PredictRaises_Never(seq) == FALSE

\* with no rows, sequence[-0:] is the whole zero array and the assignment of
\* a (0, 174) array to it cannot be broadcast: numpy raises ValueError
PredictRaises(seq) == Len(seq) = 0

\* predict handing the given rows on without padding them
PredictSequence_NoPad(seq) ==
  IF Len(seq) > SEQUENCE_LENGTH THEN LastN(seq, SEQUENCE_LENGTH) ELSE seq

\* the array predict hands to self.model.predict for a given sequence
PredictSequence(seq) ==
  IF Len(seq) < SEQUENCE_LENGTH THEN PadLeft(seq)
  ELSE IF Len(seq) > SEQUENCE_LENGTH THEN LastN(seq, SEQUENCE_LENGTH)
  ELSE seq

\* the dict predict returns for the softmax vector out
PredictResult(out) ==
  [ class |-> CLASS_NAMES[ArgMax(out)],
    confidence |-> out[ArgMax(out)],
    all_probabilities |->
      [ c \in Classes |-> out[CHOOSE i \in 1..Len(CLASS_NAMES) : CLASS_NAMES[i] = c] ] ]

\* the ids of the frames a buffer holds
Ids(buf) == [ i \in 1..Len(buf) |-> buf[i].id ]

\* the array predict() builds from self.frame_buffer
BufferSequence(buf) ==
  IF Len(buf) < SEQUENCE_LENGTH THEN PadLeft(Ids(buf))
  ELSE LastN(Ids(buf), SEQUENCE_LENGTH)

\* predict() with no sequence: the window is read from self.frame_buffer,
\* which is not assigned; without the attribute the read raises, and an empty
\* buffer cannot be broadcast into the zero array
PredictBuffer ==
  /\ pc = "idle"
  /\ last_op' = "predict"
  /\ IF ~has_frame_buffer
       THEN /\ add_result' = "AttributeError"
            /\ UNCHANGED << model_inputs, predictions, model_calls, result >>
     ELSE IF PredictRaises(frame_buffer)
       THEN /\ add_result' = "ValueError"
            /\ UNCHANGED << model_inputs, predictions, model_calls, result >>
     ELSE /\ add_result' = "predicted"
          /\ model_inputs' = << BufferSequence(frame_buffer) >>
          /\ \E out \in ModelOutputs :
               /\ result' = << PredictResult(out) >>
               /\ predictions' = << PredictResult(out).class >>
          /\ model_calls' = 1
  /\ UNCHANGED << load_path, has_frame_buffer, frame_buffer, appended, landmarks_arg >>
  /\ UNCHANGED << pc, path, landmarks_sequence, start_idx, probabilities_per_second,
                  total_predictions, scores, status >>
  /\ UNCHANGED << fusvars, regvars, smilevars, statvars, convars, srvvars >>

NextBuffer == AddFrame \/ ResetBuffer \/ PredictBuffer

SpecBuffer == InitB /\ [][NextBuffer]_vars

\* ------------------------------------------------------- calculate_scores
RECURSIVE Count(_, _)
\* Counter(predictions)[class_name]
Count(preds, c) ==
  IF preds = << >> THEN 0
  ELSE (IF Head(preds) = c THEN 1 ELSE 0) + Count(Tail(preds), c)

\* prob_dict.get(class_name, 0.0)
Get(d, k) == IF k \in DOMAIN d THEN d[k] ELSE 0

RECURSIVE SumProb(_, _)
\* sum of one column of prob_array
SumProb(probs, c) ==
  IF probs = << >> THEN 0
  ELSE Get(Head(probs), c) + SumProb(Tail(probs), c)

\* frequency score with the count taken over the scale instead of the total
FrequencyScore_Inverted(count, total) ==
  IF total > 0 /\ count > 0
    THEN RoundHalfEven(total * SCALE * 100, count)
    ELSE 0

\* frequency score falling back to the middle of the scale
FrequencyScore_NeutralDefault(count, total) ==
  IF total > 0
    THEN RoundHalfEven(count * SCALE * 100, total)
    ELSE (SCALE * 100) \div 2

\* frequency score on the scale of 7 that the comment of main names
FrequencyScore_OutOfSeven(count, total) ==
  IF total > 0
    THEN RoundHalfEven(count * 7 * 100, total)
    ELSE 0

\* round((count / total_predictions) * 10 if total_predictions > 0 else 0, 2)
FrequencyScore(count, total) ==
  IF total > 0
    THEN RoundHalfEven(count * SCALE * 100, total)
    ELSE 0

\* the column sum scaled without the division by the number of windows
AverageScore_NoMean(sum, n) == RoundHalfEven(sum * SCALE, 1)

\* round(float(np.mean(column) * 10), 2), the column in hundredths
AverageScore(sum, n) == RoundHalfEven(sum * SCALE, n)

calculate_scores(preds, total, probs) ==
  IF Len(probs) > 0
    THEN [ c \in Classes |-> AverageScore(SumProb(probs, c), Len(probs)) ]
    ELSE [ c \in Classes |-> FrequencyScore(Count(preds, c), total) ]

\* ---------------------------------------- calculate_weighted_fusion_score
\* a weight written 0.28 or 0.28 / 0.87 is kept as the fraction num / den
\* of hundredths
W(n, d) == [ num |-> n, den |-> d ]

\* the no-smile weights normalised by a wrong total
FusionWeights_WrongTotal(smile) ==
  IF smile # << >>
    THEN [ hands_on_table |-> W(28, 100), hidden_hands |-> W(23, 100),
           gestures_on_table |-> W(18, 100), self_touch |-> W(18, 100),
           smile |-> W(13, 100) ]
    ELSE [ hands_on_table |-> W(28, 100), hidden_hands |-> W(23, 100),
           gestures_on_table |-> W(18, 100), self_touch |-> W(18, 100) ]

\* the two weights dicts of the code
FusionWeights(smile) ==
  IF smile # << >>
    THEN [ hands_on_table |-> W(28, 100), hidden_hands |-> W(23, 100),
           gestures_on_table |-> W(18, 100), self_touch |-> W(18, 100),
           smile |-> W(13, 100) ]
    ELSE [ hands_on_table |-> W(28, 87), hidden_hands |-> W(23, 87),
           gestures_on_table |-> W(18, 87), self_touch |-> W(18, 87) ]

\* the weighted sum with self_touch taken as a positive indicator
FusionSum_SelfTouchPositive(sc, smile, w) ==
  Get(sc, "hands_on_table") * w["hands_on_table"].num
  + (SCALE * 100 - Get(sc, "hidden_hands")) * w["hidden_hands"].num
  + (SCALE * 100 - Get(sc, "gestures_on_table")) * w["gestures_on_table"].num
  + Get(sc, "self_touch") * w["self_touch"].num
  + (IF smile # << >> THEN smile[1] * w["smile"].num ELSE 0)

\* the sum of the weighted terms, as a numerator over the common denominator
\* of the weights: positive indicators as they are, negative ones as 10 - score
FusionSum(sc, smile, w) ==
  Get(sc, "hands_on_table") * w["hands_on_table"].num
  + (SCALE * 100 - Get(sc, "hidden_hands")) * w["hidden_hands"].num
  + (SCALE * 100 - Get(sc, "gestures_on_table")) * w["gestures_on_table"].num
  + (SCALE * 100 - Get(sc, "self_touch")) * w["self_touch"].num
  + (IF smile # << >> THEN smile[1] * w["smile"].num ELSE 0)

\* the clamp left out: the sum is rounded as it is
FusionOutcomes_NoClamp(n, den) ==
  IF (2 * n) % (2 * den) = den
    THEN { n \div den, (n \div den) + 1 }
    ELSE { (2 * n + den) \div (2 * den) }

\* round(max(0.0, min(10.0, overall)), 2) for overall = n / den hundredths;
\* where the exact value lies half-way between two hundredths the float sum
\* may fall on either side, so both neighbours are outcomes
FusionOutcomes(n, den) ==
  IF n <= 0 THEN { 0 }
  ELSE IF n >= SCALE * 100 * den THEN { SCALE * 100 }
  ELSE IF (2 * n) % (2 * den) = den
    THEN { n \div den, (n \div den) + 1 }
    ELSE { RoundHalfEven(n, den) }

\* the gesture_scores dict analyze_all builds with scores.get(label, 0)
GestureScores(sc) == [ c \in Classes |-> Get(sc, c) ]

\* one call calculate_weighted_fusion_score(sc, smile_score=smile)
Fused(sc, smile) ==
  LET w == FusionWeights(smile)
  IN  /\ smile_score' = smile
      /\ weights' = << w >>
      /\ \E r \in FusionOutcomes(FusionSum(sc, smile, w), w["hands_on_table"].den) :
           overall_score' = << r >>

\* ------------------------------------------------------- classification
Paths == { "main", "analyze_gesture", "analyze_all", "predict_from_csv" }

window_size == SEQUENCE_LENGTH

\* stride = window_size // 3 in main, stride = window_size in the API
Stride(p) == IF p = "main" THEN window_size \div 3 ELSE window_size

\* range(0, len(landmarks_sequence) - window_size + 1, stride) has start_idx
HasNextWindow ==
  start_idx < Len(landmarks_sequence) - window_size + 1

\* landmarks_sequence[start_idx:start_idx + window_size]
Window(seq, start) == SubSeq(seq, start + 1, start + window_size)

\* len(landmarks_sequence) % window_size
Remaining(seq) == Len(seq) % window_size

\* the condition under which the code classifies one more window
HasTail(p, seq) ==
  CASE p = "main" -> Len(seq) >= window_size
    [] p = "analyze_gesture" -> Remaining(seq) > 0 /\ Remaining(seq) < window_size
    [] p = "analyze_all" -> Remaining(seq) > 0
    [] OTHER -> FALSE

\* last_window = zeros; last_window[:remaining] = landmarks_sequence[-remaining:]
PadRight(seq) ==
  [ i \in 1..window_size |->
      IF i <= Remaining(seq) THEN LastN(seq, Remaining(seq))[i] ELSE 0 ]

\* the tail window taken from the first rows of the sequence
TailWindow_First(p, seq) ==
  IF p = "main" THEN SubSeq(seq, 1, window_size) ELSE PadRight(seq)

\* the window classified after the loop
TailWindow(p, seq) ==
  IF p = "main" THEN LastN(seq, window_size) ELSE PadRight(seq)

\* result['all_probabilities'] without the key other_gestures
FilteredProbs(d) == [ k \in (DOMAIN d) \ { "other_gestures" } |-> d[k] ]

\* one call of gesture_predictor.predict(window) that returns
Classified(window, out) ==
  /\ model_inputs' = Append(model_inputs, PredictSequence(window))
  /\ model_calls' = model_calls + 1
  /\ result' = << PredictResult(out) >>
  /\ predictions' = Append(predictions, PredictResult(out).class)
  /\ probabilities_per_second' =
       IF path = "analyze_all"
         THEN Append(probabilities_per_second,
                     FilteredProbs(PredictResult(out).all_probabilities))
         ELSE probabilities_per_second

\* how each entry point ends when it has no frames or a call raises
EmptyStatus(p) ==
  CASE p = "main" -> "SystemExit"
    [] p = "analyze_gesture" -> "HTTP400"
    [] OTHER -> "gesture_failed"

RaiseStatus(p) ==
  CASE p = "main" -> "Exception"
    [] p = "analyze_gesture" -> "HTTP500"
    [] p = "analyze_all" -> "gesture_failed"
    [] OTHER -> "Exception"

\* a request arrives with a video of L extracted frames
Request ==
  /\ pc \in { "idle", "done", "error" }
  /\ \E p \in Paths, L \in 0..MaxLen :
       /\ path' = p
       /\ landmarks_sequence' = [ i \in 1..L |-> i ]
       /\ IF p = "predict_from_csv"
            THEN /\ pc' = "single"
                 /\ status' = "running"
          ELSE IF L = 0
            THEN /\ pc' = "error"
                 /\ status' = EmptyStatus(p)
          ELSE /\ pc' = "loop"
               /\ status' = "running"
  /\ start_idx' = 0
  /\ model_inputs' = << >>
  /\ predictions' = << >>
  /\ probabilities_per_second' = << >>
  /\ total_predictions' = 0
  /\ scores' = << >>
  /\ model_calls' = 0
  /\ result' = << >>
  /\ smile_score' = << >>
  /\ weights' = << >>
  /\ overall_score' = << >>
  /\ UNCHANGED << bufvars, smilevars, statvars, convars, srvvars, regvars >>

\* one iteration of the window loop
LoopStep ==
  /\ pc = "loop"
  /\ HasNextWindow
  /\ \E out \in ModelOutputs :
       Classified(Window(landmarks_sequence, start_idx), out)
  /\ start_idx' = start_idx + Stride(path)
  /\ UNCHANGED << pc, path, landmarks_sequence, total_predictions, scores, status >>
  /\ UNCHANGED << bufvars, smilevars, statvars, convars, srvvars, fusvars, regvars >>

\* the code after the loop: the extra window, if the entry point takes one
TailStep ==
  /\ pc = "loop"
  /\ ~HasNextWindow
  /\ IF HasTail(path, landmarks_sequence)
       THEN \E out \in ModelOutputs :
              Classified(TailWindow(path, landmarks_sequence), out)
       ELSE UNCHANGED << model_inputs, predictions, probabilities_per_second,
                         model_calls, result >>
  /\ pc' = "score"
  /\ UNCHANGED << path, landmarks_sequence, start_idx, total_predictions, scores, status >>
  /\ UNCHANGED << bufvars, smilevars, statvars, convars, srvvars, fusvars, regvars >>

\* scores = calculate_scores(predictions, len(predictions)[, probabilities]);
\* analyze_all then fuses the scores, the smile analysis being disabled
Score ==
  /\ pc = "score"
  /\ total_predictions' = Len(predictions)
  /\ scores' = << calculate_scores(predictions, total_predictions',
                                   probabilities_per_second) >>
  /\ IF path = "analyze_all"
       THEN Fused(GestureScores(scores'[1]), << >>)
       ELSE UNCHANGED fusvars
  /\ pc' = "done"
  /\ status' = "ok"
  /\ UNCHANGED << path, landmarks_sequence, start_idx, model_inputs, predictions,
                  probabilities_per_second, model_calls >>
  /\ UNCHANGED << bufvars, smilevars, statvars, convars, srvvars, result, regvars >>

\* predict_from_csv: the whole sequence goes to predict once
PredictOnce ==
  /\ pc = "single"
  /\ IF PredictRaises(landmarks_sequence)
       THEN /\ pc' = "error"
            /\ status' = "ValueError"
            /\ UNCHANGED << model_inputs, predictions, probabilities_per_second,
                            model_calls, result >>
       ELSE /\ \E out \in ModelOutputs : Classified(landmarks_sequence, out)
            /\ pc' = "done"
            /\ status' = "ok"
  /\ UNCHANGED << path, landmarks_sequence, start_idx, total_predictions, scores >>
  /\ UNCHANGED << bufvars, smilevars, statvars, convars, srvvars, fusvars, regvars >>

\* a raising call answered by calling the model once more for the same window
ClassifierRaises_Retry ==
  /\ \/ pc = "single" /\ ~PredictRaises(landmarks_sequence)
     \/ pc = "loop" /\ HasNextWindow
     \/ pc = "loop" /\ ~HasNextWindow /\ HasTail(path, landmarks_sequence)
  /\ model_calls <= Len(model_inputs)
  /\ model_calls' = model_calls + 1
  /\ UNCHANGED << pc, status, path, landmarks_sequence, start_idx, model_inputs,
                  predictions, probabilities_per_second, total_predictions, scores >>
  /\ UNCHANGED << bufvars, smilevars, statvars, convars, srvvars, result, fusvars, regvars >>

\* self.model.predict raises inside a pending call of predict
ClassifierRaises ==
  /\ \/ pc = "single" /\ ~PredictRaises(landmarks_sequence)
     \/ pc = "loop" /\ HasNextWindow
     \/ pc = "loop" /\ ~HasNextWindow /\ HasTail(path, landmarks_sequence)
  /\ model_calls' = model_calls + 1
  /\ pc' = "error"
  /\ status' = RaiseStatus(path)
  /\ UNCHANGED << path, landmarks_sequence, start_idx, model_inputs, predictions,
                  probabilities_per_second, total_predictions, scores >>
  /\ UNCHANGED << bufvars, smilevars, statvars, convars, srvvars, result, fusvars, regvars >>

Init == InitBuffer /\ load_path = "model_path" /\ IdleRequest

Next == Request \/ LoopStep \/ TailStep \/ Score \/ PredictOnce \/ ClassifierRaises

Spec == Init /\ [][Next]_vars

\* ------------------------------------------- calculate_scores called directly
RECURSIVE SeqsUpTo(_, _)
\* the sequences over S of length at most n
SeqsUpTo(S, n) ==
  IF n = 0 THEN { << >> }
  ELSE LET shorter == SeqsUpTo(S, n - 1)
       IN  shorter \cup { Append(q, x) : q \in { r \in shorter : Len(r) = n - 1 }, x \in S }

\* probability dicts a caller passes: what predict returned for two outputs,
\* and two dicts over two labels only
ProbDicts ==
  { FilteredProbs(PredictResult(out).all_probabilities) :
      out \in { << 70, 10, 10, 10 >>, << 20, 20, 50, 10 >> } }
  \cup { [ c \in { "self_touch", "hands_on_table" } |->
             IF c = "self_touch" THEN 80 ELSE 20 ],
         [ c \in { "self_touch", "hands_on_table" } |->
             IF c = "self_touch" THEN 40 ELSE 60 ] }

\* calculate_scores(predictions, total_predictions, probabilities_per_second)
CallScores ==
  /\ pc = "idle"
  /\ \E preds \in SeqsUpTo(Classes, MaxPreds), total \in 0..MaxPreds,
        probs \in SeqsUpTo(ProbDicts, MaxProbs) :
       /\ predictions' = preds
       /\ total_predictions' = total
       /\ probabilities_per_second' = probs
       /\ scores' = << calculate_scores(preds, total, probs) >>
  /\ pc' = "returned"
  /\ path' = "calculate_scores"
  /\ status' = "ok"
  /\ UNCHANGED << landmarks_sequence, start_idx, model_inputs, model_calls >>
  /\ UNCHANGED << bufvars, smilevars, statvars, convars, srvvars, result, fusvars, regvars >>

NextScores == CallScores

SpecScores == Init /\ [][NextScores]_vars

\* ---------------------------- calculate_weighted_fusion_score called directly
\* score values a caller passes, some outside the scale
FusionValues == { -500, 0, 250, 1000, 1500 }

\* the dicts over some of the categories
PartialScores ==
  UNION { [ D -> FusionValues ] : D \in SUBSET Classes }

SmileInputs == { << >>, << -300 >>, << 0 >>, << 650 >>, << 2000 >> }

CallFusion ==
  /\ pc = "idle"
  /\ \E sc \in PartialScores, sm \in SmileInputs :
       /\ scores' = << sc >>
       /\ Fused(sc, sm)
  /\ pc' = "fused"
  /\ path' = "calculate_weighted_fusion_score"
  /\ status' = "ok"
  /\ UNCHANGED << landmarks_sequence, start_idx, model_inputs, predictions,
                  probabilities_per_second, total_predictions, model_calls >>
  /\ UNCHANGED << bufvars, smilevars, statvars, convars, srvvars, result, regvars >>

NextFusion == CallFusion

SpecFusion == Init /\ [][NextFusion]_vars

\* ------------------------------------------------- the gesture regressors
\* self.gesture_classes, in the order load_models fills self.models
gesture_classes ==
  << "hidden_hands_score", "hands_on_table_score", "gestures_on_table_score",
     "other_gestures_score", "self_touch_score" >>

\* the two predictors that share the loop over self.models
Variants == { "predict_new_video", "enhanced_api_server" }

\* self.models.items(): the loaded classes in insertion order
LoadedOrder(ms) ==
  LET loaded(c) == c \in ms
  IN  SelectSeq(gesture_classes, loaded)

\* values model.predict(X)[0] returns, in tenths
RegressorOutputs == { -25, 9, 46, 70, 125 }

\* int(pred): truncation toward zero
IntOf(t) == IF t >= 0 THEN t \div 10 ELSE -((-t) \div 10)

\* score = max(1, min(7, int(pred)))
ClampScore(pred) ==
  LET i == IntOf(pred)
      m == IF i < 7 THEN i ELSE 7
  IN  IF m > 1 THEN m ELSE 1

\* what the except branch of the loop stores: 1 in predict_new_video,
\* random.randint(1, 7) in enhanced_api_server
DefaultScores(v) == IF v = "predict_new_video" THEN { 1 } ELSE 1..7

\* the dicts the mock branch of enhanced_api_server draws
MockPredictions ==
  { [ c \in { gesture_classes[i] : i \in 1..Len(gesture_classes) } |->
        CASE c = "hidden_hands_score" -> a
          [] c = "hands_on_table_score" -> b
          [] c = "gestures_on_table_score" -> 3
          [] c = "other_gestures_score" -> 4
          [] OTHER -> e ] :
      a \in 1..3, b \in 3..6, e \in 1..4 }

\* __init__ / load_models: the classes whose model file exists are loaded
LoadModels ==
  /\ pc = "idle"
  /\ \E v \in Variants,
        ms \in SUBSET { gesture_classes[i] : i \in 1..Len(gesture_classes) } :
       /\ path' = v
       /\ models' = ms
  /\ pc' = "loaded"
  /\ UNCHANGED << todo, raised, gesture_predictions, voice_result, status >>
  /\ UNCHANGED << landmarks_sequence, start_idx, model_inputs, predictions,
                  probabilities_per_second, total_predictions, scores, model_calls >>
  /\ UNCHANGED << bufvars, smilevars, statvars, convars, srvvars, result, fusvars >>

\* return None of predict_new_video; the mock dict of enhanced_api_server
NoRealPrediction ==
  /\ IF path = "predict_new_video"
       THEN /\ gesture_predictions' = << >>
            /\ status' = "None"
       ELSE /\ \E d \in MockPredictions : gesture_predictions' = << d >>
            /\ status' = "mock"
  /\ pc' = "returned"

\* the call starts: no models, or the loop over self.models.items() begins
StartPredict ==
  /\ pc = "loaded"
  /\ IF models = { }
       THEN NoRealPrediction /\ UNCHANGED todo
       ELSE /\ gesture_predictions' = << << >> >>
            /\ todo' = LoadedOrder(models)
            /\ pc' = "predicting"
            /\ status' = "running"
  /\ UNCHANGED << path, models, raised, voice_result >>
  /\ UNCHANGED << landmarks_sequence, start_idx, model_inputs, predictions,
                  probabilities_per_second, total_predictions, scores, model_calls >>
  /\ UNCHANGED << bufvars, smilevars, statvars, convars, srvvars, result, fusvars >>

\* the feature preparation before the loop raises: the outer except
PreparationRaises ==
  /\ pc = "loaded"
  /\ models # { }
  /\ NoRealPrediction
  /\ UNCHANGED << path, models, todo, raised, voice_result >>
  /\ UNCHANGED << landmarks_sequence, start_idx, model_inputs, predictions,
                  probabilities_per_second, total_predictions, scores, model_calls >>
  /\ UNCHANGED << bufvars, smilevars, statvars, convars, srvvars, result, fusvars >>

\* predictions[gesture_class] = score, and the loop moves on
Stored(score) ==
  /\ gesture_predictions' =
       << [ c \in (DOMAIN gesture_predictions[1]) \cup { Head(todo) } |->
              IF c = Head(todo) THEN score ELSE gesture_predictions[1][c] ] >>
  /\ todo' = Tail(todo)
  /\ UNCHANGED << pc, path, models, status, voice_result >>
  /\ UNCHANGED << landmarks_sequence, start_idx, model_inputs, predictions,
                  probabilities_per_second, total_predictions, scores, model_calls >>
  /\ UNCHANGED << bufvars, smilevars, statvars, convars, srvvars, result, fusvars >>

\* one iteration whose model call returns a finite number
RegressorReturns ==
  /\ pc = "predicting"
  /\ todo # << >>
  /\ \E pred \in RegressorOutputs : Stored(ClampScore(pred))
  /\ UNCHANGED raised

\* one iteration whose model call returns nan or inf: int(pred) raises
\* inside the try, so the except branch stores the default
RegressorReturnsNaN ==
  /\ pc = "predicting"
  /\ todo # << >>
  /\ \E score \in DefaultScores(path) : Stored(score)
  /\ UNCHANGED raised

\* one iteration whose model call raises: the except branch stores the default
RegressorRaises ==
  /\ pc = "predicting"
  /\ todo # << >>
  /\ \E score \in DefaultScores(path) : Stored(score)
  /\ raised' = raised \cup { Head(todo) }

\* return predictions
ReturnPredictions ==
  /\ pc = "predicting"
  /\ todo = << >>
  /\ pc' = "returned"
  /\ status' = "ok"
  /\ UNCHANGED << path, regvars >>
  /\ UNCHANGED << landmarks_sequence, start_idx, model_inputs, predictions,
                  probabilities_per_second, total_predictions, scores, model_calls >>
  /\ UNCHANGED << bufvars, smilevars, statvars, convars, srvvars, result, fusvars >>

\* --------------------------------------------------- predict_engaging_tone
\* values self.model.predict(X_scaled)[0] returns, in hundredths
VoiceOutputs == { -50, 100, 455, 700, 930 }

\* np.clip(prediction, 1.0, 7.0)
Clip(x) == IF x < 100 THEN 100 ELSE IF x > 700 THEN 700 ELSE x

\* the call returns the clipped prediction
PredictEngagingTone ==
  /\ pc = "idle"
  /\ \E prediction \in VoiceOutputs :
       voice_result' = << [ engaging_tone_score |-> Clip(prediction),
                            status |-> "success" ] >>
  /\ pc' = "returned"
  /\ path' = "predict_engaging_tone"
  /\ status' = "ok"
  /\ UNCHANGED << models, todo, raised, gesture_predictions >>
  /\ UNCHANGED << landmarks_sequence, start_idx, model_inputs, predictions,
                  probabilities_per_second, total_predictions, scores, model_calls >>
  /\ UNCHANGED << bufvars, smilevars, statvars, convars, srvvars, result, fusvars >>

\* the scaler or the model raises: the except branch returns the neutral score
EngagingToneRaises ==
  /\ pc = "idle"
  /\ voice_result' = << [ engaging_tone_score |-> 400, status |-> "error" ] >>
  /\ raised' = { "engaging_tone_score" }
  /\ pc' = "returned"
  /\ path' = "predict_engaging_tone"
  /\ status' = "ok"
  /\ UNCHANGED << models, todo, gesture_predictions >>
  /\ UNCHANGED << landmarks_sequence, start_idx, model_inputs, predictions,
                  probabilities_per_second, total_predictions, scores, model_calls >>
  /\ UNCHANGED << bufvars, smilevars, statvars, convars, srvvars, result, fusvars >>

NextRegress ==
  \/ LoadModels \/ StartPredict \/ PreparationRaises
  \/ RegressorReturns \/ RegressorReturnsNaN \/ RegressorRaises \/ ReturnPredictions
  \/ PredictEngagingTone \/ EngagingToneRaises

SpecRegress == Init /\ [][NextRegress]_vars

\* ------------------------------------------------------ the smile predictor
\* Of every number only its kind is kept: "finite", "nan", "posinf" or
\* "neginf". A column of feature rows is the count of its values of each kind.
NonFinite == { "nan", "posinf", "neginf" }

Rows(d) == d.finite + d.nan + d.posinf + d.neginf

\* the columns np.loadtxt, the feature extractor or the request body supply
FeatureData ==
  { d \in [ finite : 0..MaxFrames, nan : 0..MaxFrames,
            posinf : 0..MaxFrames, neginf : 0..MaxFrames ] :
      Rows(d) >= 1 /\ Rows(d) <= MaxFrames }

\* len(frame_features) < 10 / len(features) < 10
MIN_FRAMES == 10

\* np.mean
MeanKind(d) ==
  IF d.nan > 0 \/ (d.posinf > 0 /\ d.neginf > 0) THEN "nan"
  ELSE IF d.posinf > 0 THEN "posinf"
  ELSE IF d.neginf > 0 THEN "neginf"
  ELSE "finite"

\* np.std, np.var: a deviation from an infinite or undefined mean is nan
StdKind(d) == IF d.nan + d.posinf + d.neginf > 0 THEN "nan" ELSE "finite"

\* np.max
MaxKind(d) ==
  IF d.nan > 0 THEN "nan"
  ELSE IF d.posinf > 0 THEN "posinf"
  ELSE IF d.finite > 0 THEN "finite"
  ELSE "neginf"

\* np.min
MinKind(d) ==
  IF d.nan > 0 THEN "nan"
  ELSE IF d.neginf > 0 THEN "neginf"
  ELSE IF d.finite > 0 THEN "finite"
  ELSE "posinf"

\* a - b
SubKind(a, b) ==
  IF a = "nan" \/ b = "nan" THEN "nan"
  ELSE IF a = b /\ a # "finite" THEN "nan"
  ELSE IF a = "posinf" \/ b = "neginf" THEN "posinf"
  ELSE IF a = "neginf" \/ b = "posinf" THEN "neginf"
  ELSE "finite"

\* pd.Series(col_data).skew() / .kurtosis(): nan values are skipped, and
\* fewer than least values left, or an infinite one, give nan
MomentKind(d, least) ==
  IF Rows(d) - d.nan < least \/ d.posinf + d.neginf > 0 THEN "nan" ELSE "finite"

\* std / (mean + 1e-10)
CvKind(d) ==
  IF StdKind(d) = "nan" \/ MeanKind(d) = "nan" THEN "nan" ELSE "finite"

\* the statistics of the first column, under the keys of the code
calculate_statistics(d) ==
  [ attr1_std |-> StdKind(d),
    attr1_mean |-> MeanKind(d),
    attr1_min |-> MinKind(d),
    attr1_max |-> MaxKind(d),
    attr1_range |-> SubKind(MaxKind(d), MinKind(d)),
    attr1_var |-> StdKind(d),
    attr1_skew |-> MomentKind(d, 3),
    attr1_kurt |-> MomentKind(d, 4),
    attr1_autocorr |-> "finite",
    attr1_cv |-> CvKind(d) ]

\* feature_cols of the loaded artifact: statistics of the first column and
\* one name calculate_statistics does not produce
feature_cols ==
  << "attr1_std", "attr1_mean", "attr1_min", "attr1_max", "attr1_range",
     "attr1_var", "attr1_skew", "attr1_kurt", "attr1_autocorr", "attr1_cv",
     "attr9_mean" >>

\* [stats.get(col, 0) for col in feature_cols]
FeatureVector(st) ==
  [ i \in 1..Len(feature_cols) |->
      IF feature_cols[i] \in DOMAIN st THEN st[feature_cols[i]] ELSE "finite" ]

\* a replacement of nan only, as fillna(0) does
nan_to_num_NaNOnly(v) ==
  [ i \in DOMAIN v |-> IF v[i] = "nan" THEN "finite" ELSE v[i] ]

\* np.nan_to_num(X, nan=0.0, posinf=0.0, neginf=0.0)
nan_to_num(v) ==
  [ i \in DOMAIN v |-> IF v[i] \in NonFinite THEN "finite" ELSE v[i] ]

SmilePaths == { "predict_smile", "process_uploaded_video", "predict_smile_score" }

\* a prediction is asked for; the two server paths refuse fewer than 10 rows
SmileRequest ==
  /\ pc = "idle"
  /\ \E p \in SmilePaths, d \in FeatureData :
       /\ path' = p
       /\ smile_data' = d
       /\ IF p # "predict_smile" /\ Rows(d) < MIN_FRAMES
            THEN /\ pc' = "error"
                 /\ status' = IF p = "process_uploaded_video" THEN "ValueError"
                                                              ELSE "HTTP400"
            ELSE /\ pc' = "statistics"
                 /\ status' = "running"
  /\ UNCHANGED << stats, X >>
  /\ UNCHANGED << landmarks_sequence, start_idx, model_inputs, predictions,
                  probabilities_per_second, total_predictions, scores, model_calls >>
  /\ UNCHANGED << bufvars, fusvars, regvars, result, statvars, convars, srvvars >>

\* stats = calculate_statistics(data)
CalculateStatistics ==
  /\ pc = "statistics"
  /\ stats' = << calculate_statistics(smile_data) >>
  /\ pc' = "vector"
  /\ UNCHANGED << path, status, smile_data, X >>
  /\ UNCHANGED << landmarks_sequence, start_idx, model_inputs, predictions,
                  probabilities_per_second, total_predictions, scores, model_calls >>
  /\ UNCHANGED << bufvars, fusvars, regvars, result, statvars, convars, srvvars >>

\* X = np.array([[...]]); X = np.nan_to_num(X, ...)
BuildVector ==
  /\ pc = "vector"
  /\ X' = << nan_to_num(FeatureVector(stats[1])) >>
  /\ pc' = "scale"
  /\ UNCHANGED << path, status, smile_data, stats >>
  /\ UNCHANGED << landmarks_sequence, start_idx, model_inputs, predictions,
                  probabilities_per_second, total_predictions, scores, model_calls >>
  /\ UNCHANGED << bufvars, fusvars, regvars, result, statvars, convars, srvvars >>

\* X_scaled = scaler.transform(X); prediction = model.predict(X_scaled)[0]
InvokeSmileModel ==
  /\ pc = "scale"
  /\ pc' = "returned"
  /\ status' = "ok"
  /\ UNCHANGED << path, smilevars, statvars, convars, srvvars >>
  /\ UNCHANGED << landmarks_sequence, start_idx, model_inputs, predictions,
                  probabilities_per_second, total_predictions, scores, model_calls >>
  /\ UNCHANGED << bufvars, fusvars, regvars, result, statvars, convars, srvvars >>

NextSmile == SmileRequest \/ CalculateStatistics \/ BuildVector \/ InvokeSmileModel

SpecSmile == Init /\ [][NextSmile]_vars

\* ------------------------------------- calculate_statistics, value by value
\* Values are integers in units of 1e-10 and the arithmetic is exact; a
\* quotient is kept as its numerator, the denominator being a positive power
\* of the length, and a standard deviation as its square.
EPSILON == 1

SeriesValues == { -1, 0, 1, 5 }

RECURSIVE SumSeq(_)
\* np.sum
SumSeq(q) == IF q = << >> THEN 0 ELSE Head(q) + SumSeq(Tail(q))

\* len(q)**3 * np.var(q), also len(q)**3 * np.std(q)**2
VarNum(q) ==
  SumSeq([ i \in 1..Len(q) |-> (Len(q) * q[i] - SumSeq(q)) * (Len(q) * q[i] - SumSeq(q)) ])

\* the k-th smallest value of q
KthSmallest(q, k) ==
  CHOOSE v \in { q[i] : i \in 1..Len(q) } :
    /\ Cardinality({ i \in 1..Len(q) : q[i] < v }) < k
    /\ Cardinality({ i \in 1..Len(q) : q[i] <= v }) >= k

\* 100 * np.percentile(q, p): linear interpolation between the two order
\* statistics around position (len(q) - 1) * p / 100
Percentile100(q, p) ==
  LET pos == (Len(q) - 1) * p
      lo == (pos \div 100) + 1
      hi == IF lo < Len(q) THEN lo + 1 ELSE lo
  IN  100 * KthSmallest(q, lo)
      + (KthSmallest(q, hi) - KthSmallest(q, lo)) * (pos % 100)

\* np.diff
Diff(q) == [ i \in 1..(Len(q) - 1) |-> q[i + 1] - q[i] ]

Abs(x) == IF x < 0 THEN -x ELSE x

\* np.max(q) for a non-empty q
MaxOf(q) == CHOOSE v \in { q[i] : i \in 1..Len(q) } : \A i \in 1..Len(q) : q[i] <= v

\* np.min(q) for a non-empty q
MinOf(q) == CHOOSE v \in { q[i] : i \in 1..Len(q) } : \A i \in 1..Len(q) : q[i] >= v

\* the statistics of one column that depend on the spread of its values
ColumnStatistics(q) ==
  LET diff == Diff(q)
  IN  [ std_sq |-> VarNum(q),
        var |-> VarNum(q),
        range |-> MaxOf(q) - MinOf(q),
        iqr |-> Percentile100(q, 75) - Percentile100(q, 25),
        diff_mean |-> IF Len(diff) > 0 THEN SumSeq(diff) ELSE 0,
        diff_std_sq |-> IF Len(diff) > 0 THEN VarNum(diff) ELSE 0,
        diff_max |-> IF Len(diff) > 0
                       THEN MaxOf([ i \in 1..Len(diff) |-> Abs(diff[i]) ])
                       ELSE 0,
        \* std / (mean + 1e-10): the denominator is (sum + len * 1e-10) / len
        cv_finite |-> SumSeq(q) + Len(q) * EPSILON # 0 ]

\* the non-empty columns of at most MaxT values
Columns == SeqsUpTo(SeriesValues, MaxT) \ { << >> }

\* stats = calculate_statistics(data) for a one-column array
StatisticsCall ==
  /\ pc = "idle"
  /\ \E q \in Columns :
       /\ series' = q
       /\ cstats' = << ColumnStatistics(q) >>
  /\ pc' = "returned"
  /\ path' = "calculate_statistics"
  /\ status' = "ok"
  /\ UNCHANGED << landmarks_sequence, start_idx, model_inputs, predictions,
                  probabilities_per_second, total_predictions, scores, model_calls >>
  /\ UNCHANGED << bufvars, fusvars, regvars, smilevars, result, srvvars, convars >>

NextStats == StatisticsCall

SpecStats == Init /\ [][NextStats]_vars

\* ------------------------------------------------- the upload endpoints
\* What each handler does with the uploaded file, the status code and the
\* working directory.  The outcome of the processing a handler calls is an
\* input; a file is [endpoint, name], the name being the number of the
\* request where the handler makes it unique (uuid, NamedTemporaryFile) and
\* the client's file name where it does not.

\* the names a client gives its file (secure_filename(file.filename))
ClientNames == { 1, 2 }

File(e, n) == [ endpoint |-> e, name |-> n ]

\* the request variables no upload handler touches
RequestFrame ==
  UNCHANGED << landmarks_sequence, start_idx, model_inputs, predictions,
               probabilities_per_second, total_predictions, scores, model_calls >>

\* the shapes np.array(input_data.features) can have: (0,) for an empty
\* list, else (rows, columns)
FeatureShapes == { << 0 >>, << 9, 5 >>, << 9, 4 >>, << 10, 4 >>, << 10, 5 >> }

\* api_server.analyze_features
AnalyzeFeatures ==
  /\ pc \in { "idle", "returned" }
  /\ requests < MaxRequests
  /\ \E shape \in FeatureShapes, predict_raises \in BOOLEAN :
       IF Len(shape) < 2
         THEN \* features.shape[1] raises IndexError
              /\ fault' = "too_few_frames"
              /\ http_status' = 500
       ELSE IF shape[2] # 5
         THEN \* HTTPException(400), caught by 'except Exception'
              /\ fault' = "columns"
              /\ http_status' = 500
       ELSE IF shape[1] < MIN_FRAMES
         THEN \* HTTPException(400), caught by 'except Exception'
              /\ fault' = "too_few_frames"
              /\ http_status' = 500
       ELSE IF predict_raises
         THEN /\ fault' = "exception"
              /\ http_status' = 500
       ELSE /\ fault' = "none"
            /\ http_status' = 200
  /\ requests' = requests + 1
  /\ pc' = "returned"
  /\ path' = "api_server.analyze_features"
  /\ status' = "ok"
  /\ RequestFrame
  /\ UNCHANGED << uploads, cwd, background >>
  /\ UNCHANGED << bufvars, fusvars, regvars, smilevars, result, statvars, convars >>

\* what extract_features_from_video does: raise, or return this many rows
ExtractOutcomes == { "raises", "0", "9", "10" }

\* api_server.analyze_video
SmileAnalyzeVideo ==
  /\ pc \in { "idle", "returned" }
  /\ requests < MaxRequests
  /\ \E content_ok \in BOOLEAN, extracted \in ExtractOutcomes, predict_raises \in BOOLEAN :
       LET f == File("api_server.analyze_video", requests + 1)
       IN  IF ~content_ok
             THEN \* raised before the try and before the file is written
                  /\ fault' = "content_type"
                  /\ http_status' = 400
                  /\ pc' = "returned"
                  /\ UNCHANGED << uploads, background >>
           ELSE IF extracted = "raises" \/ (extracted = "10" /\ predict_raises)
             THEN /\ fault' = "exception"
                  /\ http_status' = 500
                  /\ pc' = "returned"
                  /\ uploads' = (uploads \cup { f }) \ { f }
                  /\ UNCHANGED background
           ELSE IF extracted \in { "0", "9" }
             THEN \* HTTPException(400), caught by 'except Exception'
                  /\ fault' = "too_few_frames"
                  /\ http_status' = 500
                  /\ pc' = "returned"
                  /\ uploads' = (uploads \cup { f }) \ { f }
                  /\ UNCHANGED background
           ELSE \* background_tasks.add_task(os.remove, video_path)
                /\ fault' = "none"
                /\ http_status' = 200
                /\ pc' = "responded"
                /\ uploads' = uploads \cup { f }
                /\ background' = { f }
  /\ requests' = requests + 1
  /\ path' = "api_server.analyze_video"
  /\ status' = "ok"
  /\ RequestFrame
  /\ UNCHANGED cwd
  /\ UNCHANGED << bufvars, fusvars, regvars, smilevars, result, statvars, convars >>

\* the background task of analyze_video runs once the response is sent
RunBackgroundTask ==
  /\ pc = "responded"
  /\ uploads' = uploads \ background
  /\ background' = {}
  /\ pc' = "returned"
  /\ RequestFrame
  /\ UNCHANGED << path, status, http_status, requests, cwd, fault >>
  /\ UNCHANGED << bufvars, fusvars, regvars, smilevars, result, statvars, convars >>

GestureOutcomes == { "no_file", "empty_name", "bad_type", "process_raises", "ok" }

\* gesture_analysis_api/app.py analyze_gesture
AnalyzeGesture ==
  /\ pc \in { "idle", "returned" }
  /\ requests < MaxRequests
  /\ \E outcome \in GestureOutcomes, n \in ClientNames :
       LET f == File("app.analyze_gesture", n)
       IN  IF outcome \in { "no_file", "empty_name", "bad_type" }
             THEN /\ fault' = outcome
                  /\ http_status' = 400
                  /\ UNCHANGED uploads
           ELSE IF outcome = "process_raises"
             THEN \* file.save, then the except clause: nothing removes the file
                  /\ fault' = "exception"
                  /\ http_status' = 500
                  /\ uploads' = uploads \cup { f }
           ELSE \* file.save ... os.remove(video_path)
                /\ fault' = "none"
                /\ http_status' = 200
                /\ uploads' = (uploads \cup { f }) \ { f }
  /\ requests' = requests + 1
  /\ pc' = "returned"
  /\ path' = "app.analyze_gesture"
  /\ status' = "ok"
  /\ RequestFrame
  /\ UNCHANGED << cwd, background >>
  /\ UNCHANGED << bufvars, fusvars, regvars, smilevars, result, statvars, convars >>

\* cleanup_file: os.remove if the file exists
cleanup_file(files, f) == files \ { f }

AllOutcomes == { "gesture_fails", "raises", "ok" }

\* unified_models_api.analyze_all: save_uploaded_file, the analysis, and
\* cleanup_file in the finally clause
AnalyzeAllUpload ==
  /\ pc \in { "idle", "returned" }
  /\ requests < MaxRequests
  /\ \E outcome \in AllOutcomes :
       LET f == File("unified_models_api.analyze_all", requests + 1)
       IN  /\ fault' = IF outcome = "ok" THEN "none" ELSE "exception"
           /\ http_status' = IF outcome = "raises" THEN 500 ELSE 200
           /\ status' = IF outcome = "ok" THEN "ok" ELSE "error"
           /\ uploads' = cleanup_file(uploads \cup { f }, f)
  /\ requests' = requests + 1
  /\ pc' = "returned"
  /\ path' = "unified_models_api.analyze_all"
  /\ RequestFrame
  /\ UNCHANGED << cwd, background >>
  /\ UNCHANGED << bufvars, fusvars, regvars, smilevars, result, statvars, convars >>

VoiceOutcomes ==
  { "missing_file", "chdir_raises", "import_raises", "init_raises", "process_raises",
    "error_status", "success" }

\* the working directory get_voice_analysis leaves, entered with directory d
get_voice_analysis(d, outcome) ==
  IF outcome \in { "missing_file", "chdir_raises" }
    THEN d  \* raised before os.chdir(voice_dir) took effect
  ELSE IF outcome \in { "import_raises", "init_raises", "process_raises" }
    THEN Append(d, "voice_confidence_production")  \* the except clause has no chdir
  ELSE d  \* os.chdir(original_cwd), before the status is looked at

\* the working directory startup_event of enhanced_api_server leaves
startup_event(d, outcome) ==
  IF outcome = "success"
    THEN d  \* os.chdir(original_cwd) after the import
    ELSE d  \* os.chdir(original_cwd) in the except clause

PredictOutcomes ==
  { "no_predictor", "bad_type", "landmarks_empty", "raises", "no_predictions", "ok" }

\* simple_api_server.predict_gestures; on a platform that refuses to unlink
\* an open file the finally clause logs the PermissionError and goes on
PredictGestures ==
  /\ pc \in { "idle", "returned" }
  /\ requests < MaxRequests
  /\ \E outcome \in PredictOutcomes, voice \in VoiceOutcomes \ { "missing_file" },
        unlink_denied \in BOOLEAN :
       LET f == File("simple_api_server.predict_gestures", requests + 1)
       IN  /\ outcome = "ok" /\ Len(cwd) >= MaxDepth =>
                voice \in { "chdir_raises" }
           /\ IF outcome = "no_predictor"
                THEN /\ fault' = outcome
                     /\ http_status' = 500
                     /\ UNCHANGED << uploads, cwd >>
              ELSE IF outcome = "bad_type"
                THEN /\ fault' = "content_type"
                     /\ http_status' = 400
                     /\ UNCHANGED << uploads, cwd >>
              ELSE /\ fault' = IF outcome = "ok" THEN "none" ELSE "exception"
                   /\ http_status' = IF outcome = "ok" THEN 200 ELSE 500
                   /\ cwd' = IF outcome = "ok" THEN get_voice_analysis(cwd, voice) ELSE cwd
                   /\ uploads' = IF unlink_denied THEN uploads \cup { f }
                                 ELSE (uploads \cup { f }) \ { f }
  /\ requests' = requests + 1
  /\ pc' = "returned"
  /\ path' = "simple_api_server.predict_gestures"
  /\ status' = "ok"
  /\ RequestFrame
  /\ UNCHANGED background
  /\ UNCHANGED << bufvars, fusvars, regvars, smilevars, result, statvars, convars >>

\* enhanced_api_server.startup_event, the voice predictor part
StartupEvent ==
  /\ pc = "idle"
  /\ requests = 0
  /\ \E outcome \in { "chdir_raises", "import_raises", "success" } :
       /\ cwd' = startup_event(cwd, outcome)
       /\ status' = IF outcome = "success" THEN "voice_loaded" ELSE "voice_mock"
  /\ pc' = "returned"
  /\ path' = "enhanced_api_server.startup_event"
  /\ RequestFrame
  /\ UNCHANGED << http_status, uploads, requests, background, fault >>
  /\ UNCHANGED << bufvars, fusvars, regvars, smilevars, result, statvars, convars >>

NextServer ==
  \/ AnalyzeFeatures
  \/ SmileAnalyzeVideo
  \/ RunBackgroundTask
  \/ AnalyzeGesture
  \/ AnalyzeAllUpload
  \/ PredictGestures
  \/ StartupEvent

SpecServer == Init /\ [][NextServer]_vars

\* ------------------------------------- two requests of analyze_all at once
\* Both requests call the one global gesture_predictor; everything else
\* analyze_all uses is local to the call.  A step is one call of predict, so
\* the calls of the two requests interleave in every order.

\* the landmarks of two videos: two full windows and one more frame, and
\* exactly one window
VideoA == [ i \in 1..(2 * window_size + 1) |-> i ]

VideoB == [ i \in 1..window_size |-> 100 + i ]

Videos == { VideoA, VideoB }

\* the windows analyze_all cuts from seq
VideoWindows(seq) ==
  { Window(seq, k * window_size) : k \in 0..((Len(seq) \div window_size) - 1) }
    \cup (IF HasTail("analyze_all", seq) THEN { TailWindow("analyze_all", seq) } ELSE {})

\* the vectors the loaded classifier returns for the windows of the two
\* videos: two with one maximum, for different classes, and one with two
NetOutputs == { << 70, 10, 10, 10 >>, << 10, 70, 10, 10 >>, << 40, 40, 10, 10 >> }

\* gesture_predictor = GesturePredictor(model_path=None): the weights fix
\* one softmax vector for each input
LoadGestureModel ==
  /\ pc = "idle"
  /\ DOMAIN net = {}
  /\ net' \in [ UNION { VideoWindows(v) : v \in Videos } -> NetOutputs ]
  /\ UNCHANGED << debug_count, reqs >>
  /\ UNCHANGED << pc, path, landmarks_sequence, start_idx, model_inputs, predictions,
                  probabilities_per_second, total_predictions, scores, status, model_calls >>
  /\ UNCHANGED << bufvars, fusvars, regvars, smilevars, result, statvars, srvvars >>

\* the frame of a step of one of the two requests
ClientFrame ==
  /\ UNCHANGED << pc, path, landmarks_sequence, start_idx, model_inputs, predictions,
                  probabilities_per_second, total_predictions, scores, status, model_calls >>
  /\ UNCHANGED << bufvars, fusvars, regvars, smilevars, result, statvars, srvvars >>

\* landmarks_sequence = extract_landmarks_from_video(temp_file_path);
\* predictions = []; probabilities_per_second = []
ClientRequest(c) ==
  /\ DOMAIN net # {}
  /\ reqs[c].pc = "idle"
  /\ \E v \in Videos :
       reqs' = [ reqs EXCEPT ![c] = [ NoRequest EXCEPT !.pc = "loop",
                                                       !.landmarks_sequence = v ] ]
  /\ UNCHANGED << net, debug_count >>
  /\ ClientFrame

\* predictions.append(result['class']) and
\* probabilities_per_second.append(filtered_probs), on the lists of every
\* request at once
Store_SharedLists(rs, c, res) ==
  [ d \in DOMAIN rs |->
      [ rs[d] EXCEPT !.predictions = Append(@, res.class),
                     !.probabilities_per_second = Append(@, FilteredProbs(res.all_probabilities)) ] ]

\* predictions.append(result['class']) and
\* probabilities_per_second.append(filtered_probs), on the lists of request c
Store(rs, c, res) ==
  [ rs EXCEPT ![c].predictions = Append(@, res.class),
              ![c].probabilities_per_second = Append(@, FilteredProbs(res.all_probabilities)) ]

\* self._debug_count += 1 without a lock: the value written is one more than
\* a value the counter had when this call or an overlapping one read it
DebugCounts(n) == 1..(n + 1)

\* one round of the loop of request c
ClientLoopStep(c) ==
  /\ reqs[c].pc = "loop"
  /\ reqs[c].start_idx < Len(reqs[c].landmarks_sequence) - window_size + 1
  /\ LET window == Window(reqs[c].landmarks_sequence, reqs[c].start_idx)
         stored == Store(reqs, c, PredictResult(net[window]))
     IN  reqs' = [ stored EXCEPT ![c].start_idx = @ + Stride("analyze_all") ]
  /\ debug_count' \in DebugCounts(debug_count)
  /\ UNCHANGED net
  /\ ClientFrame

\* the loop of request c is over: the remaining frames, padded, are
\* classified if there are any
ClientTailStep(c) ==
  /\ reqs[c].pc = "loop"
  /\ ~(reqs[c].start_idx < Len(reqs[c].landmarks_sequence) - window_size + 1)
  /\ IF HasTail("analyze_all", reqs[c].landmarks_sequence)
       THEN LET window == TailWindow("analyze_all", reqs[c].landmarks_sequence)
                stored == Store(reqs, c, PredictResult(net[window]))
            IN  /\ reqs' = [ stored EXCEPT ![c].pc = "score" ]
                /\ debug_count' \in DebugCounts(debug_count)
       ELSE /\ reqs' = [ reqs EXCEPT ![c].pc = "score" ]
            /\ UNCHANGED debug_count
  /\ UNCHANGED net
  /\ ClientFrame

\* scores = calculate_scores(predictions, len(predictions), probabilities_per_second)
ClientScore(c) ==
  /\ reqs[c].pc = "score"
  /\ reqs' = [ reqs EXCEPT
                 ![c].pc = "done",
                 ![c].scores = << calculate_scores(reqs[c].predictions,
                                                   Len(reqs[c].predictions),
                                                   reqs[c].probabilities_per_second) >> ]
  /\ UNCHANGED << net, debug_count >>
  /\ ClientFrame

NextConcurrent ==
  \/ LoadGestureModel
  \/ \E c \in Clients : ClientRequest(c)
  \/ \E c \in Clients : ClientLoopStep(c)
  \/ \E c \in Clients : ClientTailStep(c)
  \/ \E c \in Clients : ClientScore(c)

SpecConcurrent == Init /\ [][NextConcurrent]_vars

\* ================================================================ claims
\* entry points that walk a window loop over the sequence
WindowPaths == { "main", "analyze_gesture", "analyze_all" }

\* C1: a sequence of 1 <= L < window_length frames is classified as exactly
\* one window whose first window_length - L rows are zero and whose last L
\* rows are the frames in order.
C1_ShortSequenceLeftPadded ==
  LET L == Len(landmarks_sequence)
  IN  (pc = "done" /\ 1 <= L /\ L < SEQUENCE_LENGTH) =>
        /\ Len(model_inputs) = 1
        /\ \A i \in 1..SEQUENCE_LENGTH :
             model_inputs[1][i] =
               IF i <= SEQUENCE_LENGTH - L THEN 0
               ELSE landmarks_sequence[i - (SEQUENCE_LENGTH - L)]

\* C2: for L >= window_length and stride S the number of windows classified
\* is floor((L - window_length) / S) + 1, plus one tail window exactly when
\* (L - window_length) mod S # 0.
C2_WindowCount ==
  LET L == Len(landmarks_sequence)
      S == Stride(path)
  IN  (pc = "done" /\ path \in WindowPaths /\ L >= SEQUENCE_LENGTH) =>
        Len(model_inputs) =
          ((L - SEQUENCE_LENGTH) \div S) + 1
            + (IF (L - SEQUENCE_LENGTH) % S # 0 THEN 1 ELSE 0)

\* C3: when frames are left over after the window loop, the extra window is
\* the last window_length frames of the sequence, without zero rows.
C3_TailIsLastFrames ==
  LET L == Len(landmarks_sequence)
      S == Stride(path)
  IN  (/\ pc \in { "score", "done" }
       /\ path \in WindowPaths
       /\ L >= SEQUENCE_LENGTH
       /\ (L - SEQUENCE_LENGTH) % S # 0) =>
        /\ Len(model_inputs) >= 1
        /\ \A i \in 1..SEQUENCE_LENGTH :
             model_inputs[Len(model_inputs)][i] =
               landmarks_sequence[L - SEQUENCE_LENGTH + i]

\* C4: whatever the length of a non-empty sequence, its final frame is a row
\* of at least one classified window.
C4_FinalFrameCovered ==
  LET L == Len(landmarks_sequence)
  IN  (pc = "done" /\ L >= 1) =>
        \E w \in 1..Len(model_inputs) :
          \E i \in 1..Len(model_inputs[w]) :
            model_inputs[w][i] = landmarks_sequence[L]

Min(a, b) == IF a <= b THEN a ELSE b

\* C5: after any appends and resets the buffer holds at most SEQUENCE_LENGTH
\* frames, and they are the most recent min(k, SEQUENCE_LENGTH) of the k frames
\* stored since the last reset, in insertion order (the oldest are evicted).
C5_BufferHoldsMostRecent ==
  LET k == Len(appended)
      n == Len(frame_buffer)
  IN  /\ n <= SEQUENCE_LENGTH
      /\ n = Min(k, SEQUENCE_LENGTH)
      /\ \A i \in 1..n : frame_buffer[i] = appended[k - n + i]

\* two frames were evicted: the buffer starts at the third frame stored
C5_Witness ==
  /\ Len(appended) = SEQUENCE_LENGTH + 2
  /\ Len(frame_buffer) = SEQUENCE_LENGTH
  /\ frame_buffer[1].id = 3
  /\ frame_buffer[SEQUENCE_LENGTH].id = SEQUENCE_LENGTH + 2

\* C6: add_frame returns True iff the buffer then holds SEQUENCE_LENGTH frames:
\* False for the first SEQUENCE_LENGTH - 1 frames stored after creation or
\* reset, True from the SEQUENCE_LENGTH-th on.
C6_ReadyIffFull ==
  (last_op = "add_frame" /\ add_result \in { "True", "False" }) =>
    /\ (add_result = "True") <=> (Len(frame_buffer) = SEQUENCE_LENGTH)
    /\ (add_result = "False") <=> (Len(appended) < SEQUENCE_LENGTH)

\* the append after the buffer became full still answers True
C6_Witness ==
  /\ last_op = "add_frame"
  /\ add_result = "True"
  /\ Len(appended) = SEQUENCE_LENGTH + 1

C8_ResetReusable ==
  /\ [][ last_op' = "reset_buffer" =>
           (has_frame_buffer' /\ frame_buffer' = << >>) ]_vars
  /\ [](ENABLED ResetBuffer)
  /\ []((has_frame_buffer /\ Len(appended) >= SEQUENCE_LENGTH) =>
          Len(frame_buffer) = SEQUENCE_LENGTH)

\* an object built without a buffer gets one only from reset_buffer: it was
\* reset and then filled
C8_Witness ==
  /\ load_path = "config_weights"
  /\ last_op = "add_frame"
  /\ add_result = "True"
  /\ Len(frame_buffer) = SEQUENCE_LENGTH

\* s hundredths is num/den rounded to the nearest hundredth, ties to even
IsRounded(s, num, den) ==
  /\ 2 * (s * den - num * 100) <= den
  /\ 2 * (num * 100 - s * den) <= den
  /\ (2 * (s * den - num * 100) = den \/ 2 * (num * 100 - s * den) = den) => s % 2 = 0

C9_WitnessThird ==
  /\ pc = "done"
  /\ path = "analyze_gesture"
  /\ Len(model_inputs) = 3
  /\ scores[1]["hidden_hands"] = 333

ColumnSum(probs, label) ==
  LET f[i \in 0..Len(probs)] ==
        IF i = 0 THEN 0
        ELSE f[i - 1] + (IF label \in DOMAIN probs[i] THEN probs[i][label] ELSE 0)
  IN  f[Len(probs)]

\* C11: with a non-empty list of per-window probabilities each label scores
\* round(mean of its probability over the windows * SCALE, 2), whatever the
\* list of predicted labels; {A:0.8,B:0.2} and {A:0.4,B:0.6} give 6.0 and 4.0.
C11_AverageScores ==
  (pc = "returned" /\ Len(probabilities_per_second) > 0) =>
    /\ Len(scores) = 1
    /\ DOMAIN scores[1] = Classes
    /\ \A label \in Classes :
         IsRounded(scores[1][label],
                   ColumnSum(probabilities_per_second, label) * SCALE,
                   Len(probabilities_per_second) * 100)
    /\ (/\ Len(probabilities_per_second) = 2
        /\ DOMAIN probabilities_per_second[1] = { "self_touch", "hands_on_table" }
        /\ DOMAIN probabilities_per_second[2] = { "self_touch", "hands_on_table" }
        /\ probabilities_per_second[1]["self_touch"] = 80
        /\ probabilities_per_second[2]["self_touch"] = 40) =>
         /\ scores[1]["self_touch"] = 600
         /\ scores[1]["hands_on_table"] = 400

\* the two windows of the example were averaged although the labels passed
\* along all name another class
C11_Witness ==
  /\ pc = "returned"
  /\ Len(probabilities_per_second) = 2
  /\ DOMAIN probabilities_per_second[1] = { "self_touch", "hands_on_table" }
  /\ DOMAIN probabilities_per_second[2] = { "self_touch", "hands_on_table" }
  /\ probabilities_per_second[1]["self_touch"] = 80
  /\ probabilities_per_second[2]["self_touch"] = 40
  /\ predictions = << "hidden_hands", "hidden_hands" >>
  /\ scores[1]["self_touch"] = 600
  /\ scores[1]["hidden_hands"] = 0

\* sum of the probabilities of one window
ColumnSumOfRow(d) ==
  LET f[i \in 0..Len(CLASS_NAMES)] ==
        IF i = 0 THEN 0
        ELSE f[i - 1] + (IF CLASS_NAMES[i] \in DOMAIN d THEN d[CLASS_NAMES[i]] ELSE 0)
  IN  f[Len(CLASS_NAMES)]

\* C12: the probabilities stored for every window sum to 1, also when the
\* classifier returned a vector that does not.
C12_StoredProbabilitiesNormalized ==
  \A i \in 1..Len(probabilities_per_second) :
    ColumnSumOfRow(probabilities_per_second[i]) = 100

\* the sum of the numerators of the weights of the categories in S
RECURSIVE SumNums(_, _)
SumNums(w, S) ==
  IF S = { } THEN 0
  ELSE LET c == CHOOSE x \in S : TRUE
       IN  w[c].num + SumNums(w, S \ { c })

\* the present-case weights dict, whose entries are the base weights
BaseWeights == FusionWeights(<< 0 >>)

\* C14: the weights the fusion builds sum to 1 with the smile score and
\* without it; without it the dict has the four gesture categories only and
\* each weight is the category's base weight divided by the sum of the base
\* weights of those four
C14_WeightsSumToOne ==
  weights # << >> =>
    LET w == weights[1]
        den == w["hands_on_table"].den
    IN  /\ \A c \in DOMAIN w : w[c].den = den
        /\ SumNums(w, DOMAIN w) = den
        /\ smile_score # << >> => DOMAIN w = Classes \cup { "smile" }
        /\ smile_score = << >> =>
             /\ DOMAIN w = Classes
             /\ \A c \in Classes :
                  w[c].num * SumNums(BaseWeights, Classes)
                    = BaseWeights[c].num * w[c].den

C14_Witness ==
  /\ pc = "fused"
  /\ smile_score = << >>
  /\ weights # << >>
  /\ weights[1]["hands_on_table"] = W(28, 87)

C14_WitnessPresent ==
  /\ pc = "fused"
  /\ smile_score = << 650 >>
  /\ weights # << >>
  /\ weights[1]["smile"] = W(13, 100)

\* C15: whatever the scores dict holds (keys missing, values off the scale)
\* and whatever the smile score, the fused score lies in [0, 10]
C15_FusedInRange ==
  overall_score # << >> =>
    /\ overall_score[1] >= 0
    /\ overall_score[1] <= SCALE * 100

C15_Witness ==
  /\ pc = "fused"
  /\ DOMAIN scores[1] = { "hands_on_table" }
  /\ scores[1]["hands_on_table"] = 1500
  /\ smile_score = << 2000 >>
  /\ overall_score = << 1000 >>

C15_WitnessLow ==
  /\ pc = "fused"
  /\ DOMAIN scores[1] = Classes
  /\ scores[1]["hands_on_table"] = -500
  /\ \A c \in Classes \ { "hands_on_table" } : scores[1][c] = 1500
  /\ smile_score = << -300 >>
  /\ overall_score = << 0 >>

\* C16: a fusion over a scores dict that lacks one of the four gesture
\* categories fails with InvalidCategorySet and returns no fused score
C16_MissingCategoryFails ==
  (pc = "fused" /\ DOMAIN scores[1] # Classes) =>
    /\ status = "InvalidCategorySet"
    /\ overall_score = << >>

\* C17: on every entry point a sequence of zero frames ends the request in
\* failure: the model is never called, nothing is predicted and no score is
\* produced
C17_EmptySequenceFails ==
  (path \in Paths /\ Len(landmarks_sequence) = 0) =>
    /\ model_calls = 0
    /\ model_inputs = << >>
    /\ predictions = << >>
    /\ scores = << >>
    /\ overall_score = << >>
    /\ pc \in { "single", "error" }
    /\ pc = "error" =>
         status = CASE path = "main" -> "SystemExit"
                    [] path = "analyze_gesture" -> "HTTP400"
                    [] path = "analyze_all" -> "gesture_failed"
                    [] OTHER -> "ValueError"

C17_Witness ==
  /\ path = "predict_from_csv"
  /\ Len(landmarks_sequence) = 0
  /\ pc = "error"
  /\ status = "ValueError"
  /\ model_calls = 0

C17_WitnessAnalyzeAll ==
  /\ path = "analyze_all"
  /\ Len(landmarks_sequence) = 0
  /\ pc = "error"
  /\ status = "gesture_failed"

\* the number of iterations of the window loop of entry point p over L frames
LoopWindows(p, L) ==
  IF L < window_size THEN 0 ELSE ((L - window_size) \div Stride(p)) + 1

\* the windows entry point p hands to predict, in the order it builds them
WindowList(p, seq) ==
  IF p = "predict_from_csv" THEN << seq >>
  ELSE [ i \in 1..(LoopWindows(p, Len(seq)) + (IF HasTail(p, seq) THEN 1 ELSE 0)) |->
           IF i <= LoopWindows(p, Len(seq))
             THEN Window(seq, (i - 1) * Stride(p))
             ELSE TailWindow(p, seq) ]

\* C18: the model is called once for each window, in the order of the
\* windows; a call that raises ends the request in failure with that one
\* call made, no call after it, and no scores
C18_OncePerWindowNoRetry ==
  path \in Paths =>
    LET windows == WindowList(path, landmarks_sequence)
        failed == pc = "error" /\ Len(landmarks_sequence) > 0
    IN  /\ Len(predictions) = Len(model_inputs)
        /\ Len(model_inputs) <= Len(windows)
        /\ \A i \in 1..Len(model_inputs) :
             model_inputs[i] = PredictSequence(windows[i])
        /\ model_calls = Len(model_inputs) + (IF failed THEN 1 ELSE 0)
        /\ model_calls <= Len(windows)
        /\ pc = "done" => model_calls = Len(windows)
        /\ failed =>
             /\ scores = << >>
             /\ overall_score = << >>
             /\ status = CASE path = "analyze_gesture" -> "HTTP500"
                           [] path = "analyze_all" -> "gesture_failed"
                           [] OTHER -> "Exception"

C18_Witness ==
  /\ path = "analyze_all"
  /\ pc = "error"
  /\ Len(landmarks_sequence) = 61
  /\ Len(model_inputs) = 1
  /\ model_calls = 2
  /\ status = "gesture_failed"

C18_WitnessDone ==
  /\ path = "analyze_all"
  /\ pc = "done"
  /\ Len(landmarks_sequence) = 61
  /\ model_calls = 3

C19_FailurePropagates ==
  /\ (pc \in { "predicting", "returned" } /\ raised # { }) =>
       /\ \A c \in raised :
            /\ gesture_predictions # << >> => c \notin DOMAIN gesture_predictions[1]
            /\ voice_result = << >>
       /\ pc = "returned" => status = "error"
  /\ (pc = "error" /\ path \in Paths) =>
       /\ scores = << >>
       /\ overall_score = << >>

\* C20: on each smile prediction path the vector the scaler and the model
\* receive has one entry per feature column and no entry is nan or infinite,
\* whatever statistics calculate_statistics produced
C20_VectorIsFinite ==
  (path \in SmilePaths /\ pc \in { "scale", "returned" }) =>
    /\ Len(X) = 1
    /\ Len(X[1]) = Len(feature_cols)
    /\ \A i \in 1..Len(X[1]) : X[1][i] \notin NonFinite

C20_Witness ==
  /\ path = "predict_smile"
  /\ pc = "returned"
  /\ Rows(smile_data) = 2
  /\ stats[1]["attr1_skew"] = "nan"
  /\ stats[1]["attr1_max"] = "posinf"
  /\ X[1][7] = "finite"

C20_WitnessServer ==
  /\ path = "process_uploaded_video"
  /\ pc = "returned"
  /\ stats[1]["attr1_mean"] = "neginf"

\* the sum of the scores of the labels in S
RECURSIVE ScoreSum(_, _)
ScoreSum(sc, S) ==
  IF S = { } THEN 0
  ELSE LET c == CHOOSE x \in S : TRUE
       IN  sc[c] + ScoreSum(sc, S \ { c })

C23_BufferCreatedEmpty ==
  /\ last_op = "init" => (has_frame_buffer /\ frame_buffer = << >>)
  /\ add_result # "AttributeError"

\* C24: predict() with no sequence leaves the buffer as it was, and for a
\* buffer of 1 <= k <= SEQUENCE_LENGTH frames the window handed to the model
\* is SEQUENCE_LENGTH - k zero rows followed by the k frames in order
C24_SnapshotKeepsBuffer ==
  [][ last_op' = "predict" =>
        /\ frame_buffer' = frame_buffer
        /\ appended' = appended
        /\ has_frame_buffer' = has_frame_buffer
        /\ (has_frame_buffer /\ Len(frame_buffer) >= 1) =>
             LET k == Len(frame_buffer)
             IN  /\ add_result' = "predicted"
                 /\ Len(model_inputs') = 1
                 /\ Len(model_inputs'[1]) = SEQUENCE_LENGTH
                 /\ \A i \in 1..SEQUENCE_LENGTH :
                      model_inputs'[1][i] =
                        IF i <= SEQUENCE_LENGTH - k THEN 0
                        ELSE frame_buffer[i - (SEQUENCE_LENGTH - k)].id ]_vars

\* a buffer of five frames was classified and still holds them
C24_Witness ==
  /\ last_op = "predict"
  /\ add_result = "predicted"
  /\ Len(frame_buffer) = 5
  /\ model_inputs[1][SEQUENCE_LENGTH - 5] = 0
  /\ model_inputs[1][SEQUENCE_LENGTH - 4] = frame_buffer[1].id

\* a full buffer was classified
C24_WitnessReady ==
  /\ last_op = "predict"
  /\ add_result = "predicted"
  /\ Len(frame_buffer) = SEQUENCE_LENGTH
  /\ model_inputs[1][1] = frame_buffer[1].id

\* C25: for a scores dict over the four categories the fused score is the
\* weighted sum, hands_on_table and the smile score taken as they are and
\* hidden_hands, gestures_on_table and self_touch as 10 - score, clamped to
\* [0, 10] and rounded to the nearest hundredth (either one at a tie)
C25_FusedValue ==
  (pc = "fused" /\ DOMAIN scores[1] = Classes) =>
    LET v == scores[1]
        den == IF smile_score # << >> THEN 100 ELSE 87
        sum == 28 * v["hands_on_table"]
               + 23 * (1000 - v["hidden_hands"])
               + 18 * (1000 - v["gestures_on_table"])
               + 18 * (1000 - v["self_touch"])
               + (IF smile_score # << >> THEN 13 * smile_score[1] ELSE 0)
        clamped == IF sum < 0 THEN 0
                   ELSE IF sum > 1000 * den THEN 1000 * den ELSE sum
        r == overall_score[1]
    IN  /\ Len(overall_score) = 1
        /\ 2 * (r * den - clamped) <= den
        /\ 2 * (clamped - r * den) <= den

\* every category 2.5 and a smile of 6.5 fuse to 5.97
C25_Witness ==
  /\ pc = "fused"
  /\ DOMAIN scores[1] = Classes
  /\ \A c \in Classes : scores[1][c] = 250
  /\ smile_score = << 650 >>
  /\ overall_score = << 597 >>

\* C26: in the dict predict returns for a window the class is a label whose
\* probability no other label exceeds, and the confidence is the probability
\* of that label; the label recorded for the window is that class
C26_ClassIsArgMax ==
  result # << >> =>
    LET r == result[1]
    IN  /\ r.class \in Classes
        /\ DOMAIN r.all_probabilities = Classes
        /\ r.confidence = r.all_probabilities[r.class]
        /\ \A c \in Classes : r.all_probabilities[c] <= r.confidence
        /\ Len(predictions) > 0
        /\ predictions[Len(predictions)] = r.class

\* two labels share the largest probability and the first is reported
C26_Witness ==
  /\ pc = "done"
  /\ path = "analyze_all"
  /\ result # << >>
  /\ result[1].all_probabilities["self_touch"] = 40
  /\ result[1].all_probabilities["hands_on_table"] = 40
  /\ result[1].class = "self_touch"
  /\ result[1].confidence = 40

\* C27: for a column of T >= 1 equal values the standard deviation, the
\* variance, the range, the inter-quartile range and the three statistics
\* of the first differences are 0, and the coefficient of variation is finite
C27_ConstantSeriesStatistics ==
  (pc = "returned" /\ path = "calculate_statistics"
     /\ \A i \in 1..Len(series) : series[i] = series[1]) =>
    LET st == cstats[1]
    IN  /\ st.std_sq = 0
        /\ st.var = 0
        /\ st.range = 0
        /\ st.iqr = 0
        /\ st.diff_mean = 0
        /\ st.diff_std_sq = 0
        /\ st.diff_max = 0
        /\ st.cv_finite

\* C28: a request of the smile API refused for its input, a feature array
\* without 5 columns or with fewer than 10 frames, or a video that yields
\* fewer than 10 feature frames, is answered with status 400
C28_ValidationIs400 ==
  (/\ pc = "returned"
   /\ path \in { "api_server.analyze_features", "api_server.analyze_video" }
   /\ fault \in { "columns", "too_few_frames" }) =>
    http_status = 400

\* C29: the working directory is the one the process started with, whatever
\* calls of get_voice_analysis have been made and however they ended
C29_CwdUnchanged == cwd = << >>

\* C30: once a request is complete no uploaded file an analysis endpoint
\* wrote is left on disk
C30_UploadsDeleted == pc = "returned" => uploads = {}

\* what a request for seq gets from the classifier f when it runs alone
AlonePredictions(f, seq) ==
  [ i \in 1..Len(WindowList("analyze_all", seq)) |->
      PredictResult(f[WindowList("analyze_all", seq)[i]]) ]

IsPrefix(a, b) == Len(a) <= Len(b) /\ \A i \in 1..Len(a) : a[i] = b[i]

====
